---------------------------- MODULE Spec2Model ----------------------------
(***************************************************************************)
(* grex: the precedence-aware printer of regular-expression trees          *)
(* (src/fmt.rs) and the command-line front end (src/main.rs).              *)
(*                                                                         *)
(* Text is a sequence of Unicode scalar values (integers).  Printed output *)
(* is a sequence of tokens [txt, style]: txt is the text of one formatted  *)
(* piece and style the ANSI styling the `colored` crate puts around it     *)
(* ("none" for a plain string and for ColoredString::clear()).             *)
(***************************************************************************)
EXTENDS Integers, Sequences, FiniteSets, TLC

VARIABLES
    pc,             \* position of the run
    expr,           \* the Expression handed to Display::fmt
    output,         \* what Display::fmt wrote to the Formatter
    argv,           \* the command line given to the process
    fs,             \* what reading the file named by --file yields
    cli,            \* the CLI struct built by CLI::from_args
    input,          \* the Result returned by obtain_input
    builder,        \* the RegExpBuilder handle_input configures
    stdout,         \* lines printed with println!
    stderr,         \* lines printed with eprintln!
    parse_error,    \* the usage error the argument parser reported, if any
    exit_status     \* the status the process ended with

cli_vars == <<argv, fs, cli, input, builder, stdout, stderr, parse_error, exit_status>>
vars == <<pc, expr, output, argv, fs, cli, input, builder, stdout, stderr,
          parse_error, exit_status>>

-----------------------------------------------------------------------------
(* Bounds of the model *)

MaxDepth == 2        \* nesting depth of the expressions printed
MaxOptions == 2      \* options of an alternation
MaxClassSize == 4    \* members of a character class
MaxFileLen == 2      \* characters of the file read with --file
MaxAppended == 2     \* empty lines appended to a file's content

-----------------------------------------------------------------------------
(* Generic helpers *)

RECURSIVE Flatten(_)
Flatten(seqs) ==
    IF seqs = <<>> THEN <<>> ELSE Head(seqs) \o Flatten(Tail(seqs))

RECURSIVE Join(_, _)
Join(seqs, sep) ==
    IF seqs = <<>> THEN <<>>
    ELSE IF Len(seqs) = 1 THEN seqs[1]
    ELSE seqs[1] \o sep \o Join(Tail(seqs), sep)

Min(S) == CHOOSE x \in S : \A y \in S : x <= y

\* iteration order of a BTreeSet<char>: ascending scalar value
RECURSIVE BTreeSetIter(_)
BTreeSetIter(S) ==
    IF S = {} THEN <<>> ELSE <<Min(S)>> \o BTreeSetIter(S \ {Min(S)})

Tok(txt, style) == [txt |-> txt, style |-> style]

Texts(toks) == [i \in 1..Len(toks) |-> toks[i].txt]

-----------------------------------------------------------------------------
(* Expression (crate::ast) *)

Node(type, children, char_set, cluster, quantifier, colorized) ==
    [type |-> type, children |-> children, char_set |-> char_set,
     cluster |-> cluster, quantifier |-> quantifier,
     is_output_colorized |-> colorized]

Alternation(options, c) == Node("Alternation", options, {}, <<>>, "none", c)
CharacterClass(char_set, c) == Node("CharacterClass", <<>>, char_set, <<>>, "none", c)
Concatenation(expr1, expr2, c) == Node("Concatenation", <<expr1, expr2>>, {}, <<>>, "none", c)
Literal(cluster) == Node("Literal", <<>>, {}, cluster, "none", FALSE)
Repetition(e, quantifier, c) == Node("Repetition", <<e>>, {}, <<>>, quantifier, c)

Quantifiers == {"KleeneStar", "QuestionMark"}

precedence(e) ==
    CASE e.type = "Alternation" -> 1
      [] e.type = "Concatenation" -> 2
      [] e.type = "Repetition" -> 3
      [] e.type = "CharacterClass" -> 4
      [] e.type = "Literal" -> IF Len(e.cluster) = 1 THEN 4 ELSE 2

is_single_codepoint(e) ==
    \/ e.type = "Literal" /\ Len(e.cluster) = 1
    \/ e.type = "CharacterClass" /\ Cardinality(e.char_set) = 1

\* Grapheme::escape_regexp_symbols outside a character class
RegexpSymbols == {92, 40, 41, 91, 93, 123, 125, 124, 63, 42, 43, 46, 94, 36}

escape_regexp_symbols(c) == IF c \in RegexpSymbols THEN <<92, c>> ELSE <<c>>

-----------------------------------------------------------------------------
(* src/fmt.rs *)

\* it.green().bold() and the like when the node is colorized, it.clear() otherwise
Colored(txt, style, is_output_colorized) ==
    Tok(txt, IF is_output_colorized THEN style ELSE "none")

\* impl Display for Quantifier
QuantifierChar(quantifier) ==
    IF quantifier = "KleeneStar" THEN <<42>> ELSE <<63>>

\* CharRange::all() runs over every scalar value: the surrogates are left out
SurrogateFirst == 55296
SurrogateCount == 2048

get_codepoint_position(c) ==
    IF c < SurrogateFirst THEN c ELSE c - SurrogateCount

chars_to_escape == {91, 93, 92, 45, 94}

\* a plausible slip: '^' is missing from chars_to_escape
escape_in_class_without_caret(c) ==
    IF c \in chars_to_escape \ {94} THEN <<92, c>>
    ELSE IF c = 10 THEN <<92, 110>>
    ELSE IF c = 13 THEN <<92, 114>>
    ELSE IF c = 9 THEN <<92, 116>>
    ELSE <<c>>

escape_in_class(c) ==
    IF c \in chars_to_escape THEN <<92, c>>
    ELSE IF c = 10 THEN <<92, 110>>
    ELSE IF c = 13 THEN <<92, 114>>
    ELSE IF c = 9 THEN <<92, 116>>
    ELSE <<c>>

RECURSIVE class_windows(_, _, _, _, _)

\* a plausible slip: a gap of one position still continues the run
class_windows_gap_tolerant(i, escaped_char_set, char_positions, subsets, subset) ==
    IF i >= Len(escaped_char_set) THEN Append(subsets, subset)
    ELSE LET started == IF subset = <<>> THEN <<escaped_char_set[i]>> ELSE subset
         IN IF char_positions[i + 1] <= char_positions[i] + 2
            THEN class_windows(i + 1, escaped_char_set, char_positions, subsets,
                               Append(started, escaped_char_set[i + 1]))
            ELSE class_windows(i + 1, escaped_char_set, char_positions,
                               Append(subsets, started), <<escaped_char_set[i + 1]>>)

\* the tuple_windows loop: window i is (element i, element i + 1)
class_windows(i, escaped_char_set, char_positions, subsets, subset) ==
    IF i >= Len(escaped_char_set) THEN Append(subsets, subset)
    ELSE LET started == IF subset = <<>> THEN <<escaped_char_set[i]>> ELSE subset
         IN IF char_positions[i + 1] = char_positions[i] + 1
            THEN class_windows(i + 1, escaped_char_set, char_positions, subsets,
                               Append(started, escaped_char_set[i + 1]))
            ELSE class_windows(i + 1, escaped_char_set, char_positions,
                               Append(subsets, started), <<escaped_char_set[i + 1]>>)

class_subsets(char_set) ==
    LET members == BTreeSetIter(char_set)
        escaped_char_set == [i \in 1..Len(members) |-> escape_in_class(members[i])]
        char_positions == [i \in 1..Len(members) |-> get_codepoint_position(members[i])]
    IN class_windows(1, escaped_char_set, char_positions, <<>>, <<>>)

\* one subset's entry of char_class_strs
class_subset_str(subset, hyphen) ==
    IF Len(subset) <= 2
    THEN [i \in 1..Len(subset) |-> Tok(subset[i], "none")]
    ELSE <<Tok(subset[1], "none"), hyphen, Tok(subset[Len(subset)], "none")>>

format_character_class(char_set, is_output_colorized) ==
    LET subsets == class_subsets(char_set)
        left_bracket == Colored(<<91>>, "cyan_bold", is_output_colorized)
        right_bracket == Colored(<<93>>, "cyan_bold", is_output_colorized)
        hyphen == Colored(<<45>>, "cyan_bold", is_output_colorized)
        char_class_strs ==
            [i \in 1..Len(subsets) |-> class_subset_str(subsets[i], hyphen)]
    IN <<left_bracket>> \o Flatten(char_class_strs) \o <<right_bracket>>

format_literal(cluster) ==
    Flatten([i \in 1..Len(cluster) |->
                <<Tok(escape_regexp_symbols(cluster[i]), "none")>>])

RECURSIVE Format(_)

format_alternation(e, options, is_output_colorized) ==
    LET left_parenthesis == Colored(<<40>>, "green_bold", is_output_colorized)
        right_parenthesis == Colored(<<41>>, "green_bold", is_output_colorized)
        pipe == Colored(<<124>>, "red_bold", is_output_colorized)
        alternation_str ==
            [i \in 1..Len(options) |->
                IF precedence(options[i]) < precedence(e)
                   /\ ~is_single_codepoint(options[i])
                THEN <<left_parenthesis>> \o Format(options[i]) \o <<right_parenthesis>>
                ELSE Format(options[i])]
    IN Join(alternation_str, <<pipe>>)

format_concatenation(e, expr1, expr2, is_output_colorized) ==
    LET left_parenthesis == Colored(<<40>>, "green_bold", is_output_colorized)
        right_parenthesis == Colored(<<41>>, "green_bold", is_output_colorized)
        exprs == <<expr1, expr2>>
        expr_strs ==
            [i \in 1..2 |->
                IF precedence(exprs[i]) < precedence(e)
                   /\ ~is_single_codepoint(exprs[i])
                THEN <<left_parenthesis>> \o Format(exprs[i]) \o <<right_parenthesis>>
                ELSE Format(exprs[i])]
    IN expr_strs[1] \o expr_strs[2]

\* a plausible slip: the single-code-point exemption is forgotten
format_repetition_always_groups_lower(e, expr1, quantifier, is_output_colorized) ==
    LET left_parenthesis == Colored(<<40>>, "green_bold", is_output_colorized)
        right_parenthesis == Colored(<<41>>, "green_bold", is_output_colorized)
        colored_quantifier ==
            Colored(QuantifierChar(quantifier), "purple_bold", is_output_colorized)
    IN IF precedence(expr1) <= precedence(e)
       THEN <<left_parenthesis>> \o Format(expr1)
            \o <<right_parenthesis, colored_quantifier>>
       ELSE Format(expr1) \o <<colored_quantifier>>

\* a plausible slip: the quantifier is written without its style
format_repetition_plain_quantifier(e, expr1, quantifier, is_output_colorized) ==
    LET left_parenthesis == Colored(<<40>>, "green_bold", is_output_colorized)
        right_parenthesis == Colored(<<41>>, "green_bold", is_output_colorized)
        colored_quantifier == Tok(QuantifierChar(quantifier), "none")
    IN IF precedence(expr1) < precedence(e) /\ ~is_single_codepoint(expr1)
       THEN <<left_parenthesis>> \o Format(expr1)
            \o <<right_parenthesis, colored_quantifier>>
       ELSE Format(expr1) \o <<colored_quantifier>>

format_repetition(e, expr1, quantifier, is_output_colorized) ==
    LET left_parenthesis == Colored(<<40>>, "green_bold", is_output_colorized)
        right_parenthesis == Colored(<<41>>, "green_bold", is_output_colorized)
        colored_quantifier ==
            Colored(QuantifierChar(quantifier), "purple_bold", is_output_colorized)
    IN IF precedence(expr1) < precedence(e) /\ ~is_single_codepoint(expr1)
       THEN <<left_parenthesis>> \o Format(expr1)
            \o <<right_parenthesis, colored_quantifier>>
       ELSE Format(expr1) \o <<colored_quantifier>>

\* impl Display for Expression
Format(e) ==
    CASE e.type = "Alternation" ->
            format_alternation(e, e.children, e.is_output_colorized)
      [] e.type = "CharacterClass" ->
            format_character_class(e.char_set, e.is_output_colorized)
      [] e.type = "Concatenation" ->
            format_concatenation(e, e.children[1], e.children[2], e.is_output_colorized)
      [] e.type = "Literal" -> format_literal(e.cluster)
      [] e.type = "Repetition" ->
            format_repetition(e, e.children[1], e.quantifier, e.is_output_colorized)

-----------------------------------------------------------------------------
(* src/main.rs *)

FlagNames ==
    {"is_digit_converted", "is_non_digit_converted", "is_space_converted",
     "is_non_space_converted", "is_word_converted", "is_non_word_converted",
     "is_repetition_converted", "is_non_ascii_char_escaped",
     "is_astral_code_point_converted_to_surrogate", "is_output_colorized"}

\* struct CLI: the positional INPUT values, --file and the ten flags
MakeCli(values, file_path, flags) ==
    [input |-> values,
     file_path |-> file_path,
     is_digit_converted |-> flags["is_digit_converted"],
     is_non_digit_converted |-> flags["is_non_digit_converted"],
     is_space_converted |-> flags["is_space_converted"],
     is_non_space_converted |-> flags["is_non_space_converted"],
     is_word_converted |-> flags["is_word_converted"],
     is_non_word_converted |-> flags["is_non_word_converted"],
     is_repetition_converted |-> flags["is_repetition_converted"],
     is_non_ascii_char_escaped |-> flags["is_non_ascii_char_escaped"],
     is_astral_code_point_converted_to_surrogate |->
         flags["is_astral_code_point_converted_to_surrogate"],
     is_output_colorized |-> flags["is_output_colorized"]]

NoCli == MakeCli(<<>>, "none", [f \in FlagNames |-> FALSE])

\* Result<Vec<String>, Error>
Ok(test_cases) == [ok |-> TRUE, test_cases |-> test_cases, kind |-> "none", message |-> ""]
Err(kind, message) == [ok |-> FALSE, test_cases |-> <<>>, kind |-> kind, message |-> message]
NoResult == Ok(<<>>)

\* what std::fs::read_to_string yields for the file named by --file
ReadOk(content) == [kind |-> "Ok", content |-> content, message |-> ""]
ReadErr(kind, message) == [kind |-> kind, content |-> <<>>, message |-> message]
NotRead == ReadErr("NotRead", "")

\* the relations the structopt attributes declare: INPUT is required unless
\* --file is given and conflicts with it, --with-surrogates requires --escape
ArgsAccepted(args) ==
    /\ args.input # <<>> \/ args.file_path # "none"
    /\ ~(args.input # <<>> /\ args.file_path # "none")
    /\ args.is_astral_code_point_converted_to_surrogate => args.is_non_ascii_char_escaped

UsageError(args) ==
    IF args.input # <<>> /\ args.file_path # "none" THEN "ArgumentConflict"
    ELSE "MissingRequiredArgument"

\* str::lines: lines end with \n or \r\n, the last line's ending is optional
RECURSIVE lines(_)
lines(content) ==
    IF content = <<>> THEN <<>>
    ELSE IF \A i \in 1..Len(content) : content[i] # 10 THEN <<content>>
    ELSE LET k == CHOOSE i \in 1..Len(content) :
                    content[i] = 10 /\ \A j \in 1..(i - 1) : content[j] # 10
             line == SubSeq(content, 1, k - 1)
             stripped == IF line # <<>> /\ line[Len(line)] = 13
                         THEN SubSeq(line, 1, Len(line) - 1) ELSE line
         IN <<stripped>> \o lines(SubSeq(content, k + 1, Len(content)))

obtain_input(c, read) ==
    IF c.input # <<>> THEN Ok(c.input)
    ELSE IF c.file_path # "none"
    THEN IF read.kind = "Ok" THEN Ok(lines(read.content))
         ELSE Err(read.kind, read.message)
    ELSE Err("InvalidInput", "error: no valid input could be found whatsoever")

\* RegExpBuilder (crate root): the configuration a builder carries
RegExpBuilder_from(test_cases) ==
    [created |-> TRUE, test_cases |-> test_cases, conversion_features |-> <<>>,
     is_non_ascii_char_escaped |-> FALSE,
     is_astral_code_point_converted_to_surrogate |-> FALSE,
     is_output_colorized |-> FALSE, build_calls |-> 0]

NoBuilder == [RegExpBuilder_from(<<>>) EXCEPT !.created = FALSE]

with_conversion_of(b, conversion_features) ==
    [b EXCEPT !.conversion_features = conversion_features]

with_escaping_of_non_ascii_chars(b, use_surrogate_pairs) ==
    [b EXCEPT !.is_non_ascii_char_escaped = TRUE,
              !.is_astral_code_point_converted_to_surrogate = use_surrogate_pairs]

with_syntax_highlighting(b) == [b EXCEPT !.is_output_colorized = TRUE]

build(b) == [b EXCEPT !.build_calls = @ + 1]

Push(flag, feature) == IF flag THEN <<feature>> ELSE <<>>

\* a plausible slip: the -S branch pushes the feature of -s
selected_features_non_space_as_space(c) ==
    Push(c.is_digit_converted, "Digit")
    \o Push(c.is_non_digit_converted, "NonDigit")
    \o Push(c.is_space_converted, "Space")
    \o Push(c.is_non_space_converted, "Space")
    \o Push(c.is_word_converted, "Word")
    \o Push(c.is_non_word_converted, "NonWord")
    \o Push(c.is_repetition_converted, "Repetition")

\* the seven `if cli.is_..._converted { conversion_features.push(..) }`
selected_features(c) ==
    Push(c.is_digit_converted, "Digit")
    \o Push(c.is_non_digit_converted, "NonDigit")
    \o Push(c.is_space_converted, "Space")
    \o Push(c.is_non_space_converted, "NonSpace")
    \o Push(c.is_word_converted, "Word")
    \o Push(c.is_non_word_converted, "NonWord")
    \o Push(c.is_repetition_converted, "Repetition")

\* the builder as the Ok arm leaves it, build() included
configured_builder(c, test_cases) ==
    LET b0 == RegExpBuilder_from(test_cases)
        conversion_features == selected_features(c)
        b1 == IF conversion_features # <<>>
              THEN with_conversion_of(b0, conversion_features) ELSE b0
        b2 == IF c.is_non_ascii_char_escaped
              THEN with_escaping_of_non_ascii_chars(
                       b1, c.is_astral_code_point_converted_to_surrogate)
              ELSE b1
        b3 == IF c.is_output_colorized THEN with_syntax_highlighting(b2) ELSE b2
    IN build(b3)

\* a plausible slip: the catch-all arm prints nothing
error_line_without_catch_all(error) ==
    CASE error.kind = "NotFound" ->
            <<<<"error: the specified file could not be found">>>>
      [] error.kind = "InvalidData" ->
            <<<<"error: the specified file's encoding is not valid UTF-8">>>>
      [] error.kind = "PermissionDenied" ->
            <<<<"permission denied: the specified file could not be opened">>>>
      [] OTHER -> <<>>

\* the lines the Err arm writes with eprintln!
error_line(error) ==
    CASE error.kind = "NotFound" ->
            <<<<"error: the specified file could not be found">>>>
      [] error.kind = "InvalidData" ->
            <<<<"error: the specified file's encoding is not valid UTF-8">>>>
      [] error.kind = "PermissionDenied" ->
            <<<<"permission denied: the specified file could not be opened">>>>
      [] OTHER -> <<<<"error: ", error.message>>>>

\* handle_input: what it leaves in the builder, on stdout and on stderr
handle_input(c, result) ==
    IF result.ok
    THEN [builder |-> configured_builder(c, result.test_cases),
          stdout |-> <<<<"regexp">>>>,
          stderr |-> <<>>]
    ELSE [builder |-> NoBuilder,
          stdout |-> <<>>,
          stderr |-> error_line(result)]

-----------------------------------------------------------------------------
(* The expressions printed *)

LiteralClusters == {<<97>>, <<97, 98>>, <<40>>}
LeafCharSets == {{97, 98, 99}}

Leaves(c) ==
    {Literal(cluster) : cluster \in LiteralClusters}
    \cup {CharacterClass(S, c) : S \in LeafCharSets}

\* the children that stand beside the nested one
Siblings == {Literal(<<97>>), Literal(<<97, 98>>)}

\* a parent to put around an expression: its type, the place of the nested
\* child among the children, and the sibling children in order
Parents ==
    UNION {{[type |-> "Alternation", at |-> p, beside |-> l, quantifier |-> "none"] :
               p \in 1..n, l \in [1..(n - 1) -> Siblings]} : n \in 2..MaxOptions}
    \cup {[type |-> "Concatenation", at |-> p, beside |-> <<l>>, quantifier |-> "none"] :
             p \in 1..2, l \in Siblings}
    \cup {[type |-> "Repetition", at |-> 1, beside |-> <<>>, quantifier |-> q] :
             q \in Quantifiers}

Nest(e, parent, c) ==
    LET children == SubSeq(parent.beside, 1, parent.at - 1) \o <<e>>
                    \o SubSeq(parent.beside, parent.at, Len(parent.beside))
    IN CASE parent.type = "Alternation" -> Alternation(children, c)
         [] parent.type = "Concatenation" -> Concatenation(children[1], children[2], c)
         [] parent.type = "Repetition" -> Repetition(e, parent.quantifier, c)

\* the leaf with parents[1] around it, parents[2] around that, and so on
RECURSIVE NestAll(_, _, _)
NestAll(e, parents, c) ==
    IF parents = <<>> THEN e
    ELSE NestAll(Nest(e, Head(parents), c), Tail(parents), c)

\* every scalar value a class of the model can hold
Chars == (9..13) \cup {45} \cup (91..100) \cup {55294, 55295, 57344, 57345}

CharSets == {S \in SUBSET Chars : Cardinality(S) \in 1..MaxClassSize}

CliIdle ==
    /\ argv = NoCli /\ fs = NotRead /\ cli = NoCli /\ input = NoResult
    /\ builder = NoBuilder /\ stdout = <<>> /\ stderr = <<>>
    /\ parse_error = "none" /\ exit_status = "running"

-----------------------------------------------------------------------------
(* Printing an expression: one action per arm of Display::fmt *)

Init ==
    /\ pc = "ready"
    /\ \E c \in BOOLEAN, depth \in 0..MaxDepth :
          \E leaf \in Leaves(c), parents \in [1..depth -> Parents] :
              expr = NestAll(leaf, parents, c)
    /\ output = <<>>
    /\ CliIdle

FmtAlternation ==
    /\ pc = "ready" /\ expr.type = "Alternation"
    /\ output' = format_alternation(expr, expr.children, expr.is_output_colorized)
    /\ pc' = "done"
    /\ UNCHANGED <<expr, cli_vars>>

FmtCharacterClass ==
    /\ pc = "ready" /\ expr.type = "CharacterClass"
    /\ output' = format_character_class(expr.char_set, expr.is_output_colorized)
    /\ pc' = "done"
    /\ UNCHANGED <<expr, cli_vars>>

FmtConcatenation ==
    /\ pc = "ready" /\ expr.type = "Concatenation"
    /\ output' = format_concatenation(expr, expr.children[1], expr.children[2],
                                      expr.is_output_colorized)
    /\ pc' = "done"
    /\ UNCHANGED <<expr, cli_vars>>

FmtLiteral ==
    /\ pc = "ready" /\ expr.type = "Literal"
    /\ output' = format_literal(expr.cluster)
    /\ pc' = "done"
    /\ UNCHANGED <<expr, cli_vars>>

FmtRepetition ==
    /\ pc = "ready" /\ expr.type = "Repetition"
    /\ output' = format_repetition(expr, expr.children[1], expr.quantifier,
                                   expr.is_output_colorized)
    /\ pc' = "done"
    /\ UNCHANGED <<expr, cli_vars>>

Next ==
    \/ FmtAlternation
    \/ FmtCharacterClass
    \/ FmtConcatenation
    \/ FmtLiteral
    \/ FmtRepetition

Spec == Init /\ [][Next]_vars

(* Printing a character class over every small set of members *)

InitClass ==
    /\ pc = "ready"
    /\ expr \in {CharacterClass(S, c) : S \in CharSets, c \in BOOLEAN}
    /\ output = <<>>
    /\ CliIdle

NextClass == FmtCharacterClass

SpecClass == InitClass /\ [][NextClass]_vars

-----------------------------------------------------------------------------
(* Claims about the printer of compound nodes (Spec) *)

IsCompound(e) == e.type \in {"Alternation", "Concatenation", "Repetition"}

\* the contract's grouping rule
GroupedByContract(child, parent) ==
    precedence(child) < precedence(parent) /\ ~is_single_codepoint(child)

\* the text of a child as the contract wants it inside its parent
ContractChildText(child, parent) ==
    IF GroupedByContract(child, parent)
    THEN <<<<40>>>> \o Texts(Format(child)) \o <<<<41>>>>
    ELSE Texts(Format(child))

ContractText(e) ==
    LET parts == [i \in 1..Len(e.children) |-> ContractChildText(e.children[i], e)]
    IN CASE e.type = "Alternation" -> Join(parts, <<<<124>>>>)
         [] e.type = "Concatenation" -> Flatten(parts)
         [] e.type = "Repetition" -> Flatten(parts) \o <<QuantifierChar(e.quantifier)>>

\* C1: an Alternation, Concatenation or Repetition prints each child inside
\* parentheses exactly when the child's precedence is strictly lower than the
\* node's and the child is not a single code point, and bare otherwise.
C1_GroupingByPrecedence ==
    (pc = "done" /\ IsCompound(expr)) => Texts(output) = ContractText(expr)

\* (a|ab)* : the alternation under a repetition is grouped, while its options,
\* a single code point and a literal of higher precedence, are not
C1_Witness ==
    /\ pc = "done"
    /\ expr.type = "Repetition"
    /\ expr.children[1].type = "Alternation"
    /\ expr.children[1].children = <<Literal(<<97>>), Literal(<<97, 98>>)>>
    /\ Texts(output) = <<<<40>>, <<97>>, <<124>>, <<97>>, <<98>>, <<41>>, <<42>>>>

RECURSIVE SetColorized(_, _)
SetColorized(e, c) ==
    IF e.type = "Literal" THEN e
    ELSE [e EXCEPT !.is_output_colorized = c,
                   !.children = [i \in 1..Len(e.children) |->
                                    SetColorized(e.children[i], c)]]

\* the style the colour scheme gives a token of this text
SchemeStyle(txt) ==
    CASE txt \in {<<40>>, <<41>>} -> "green_bold"
      [] txt = <<124>> -> "red_bold"
      [] txt \in {<<91>>, <<93>>, <<45>>} -> "cyan_bold"
      [] txt \in {<<42>>, <<63>>} -> "purple_bold"
      [] OTHER -> "none"

\* C8: with the colorize flag on, parentheses are green/bold, `|` red/bold,
\* `[`, `]` and the range `-` cyan/bold and the quantifier purple/bold; with
\* the flag off no token carries a style; and the characters printed are the
\* same either way.
C8_ColorScheme ==
    (pc = "done" /\ expr.type # "Literal") =>
        /\ \A i \in 1..Len(output) :
              output[i].style = IF expr.is_output_colorized
                                THEN SchemeStyle(output[i].txt) ELSE "none"
        /\ Texts(output) =
              Texts(Format(SetColorized(expr, ~expr.is_output_colorized)))

\* a colorized ([a-c]|a)* : a group, a separator, a range and a quantifier
C8_Witness ==
    /\ pc = "done"
    /\ expr.type = "Repetition"
    /\ expr.is_output_colorized
    /\ Texts(output) = <<<<40>>, <<91>>, <<97>>, <<45>>, <<99>>, <<93>>, <<124>>,
                         <<97>>, <<41>>, <<42>>>>
    /\ \E i, j, k, l \in 1..Len(output) :
          /\ output[i] = Tok(<<40>>, "green_bold")
          /\ output[j] = Tok(<<124>>, "red_bold")
          /\ output[k] = Tok(<<45>>, "cyan_bold")
          /\ output[l] = Tok(<<42>>, "purple_bold")

-----------------------------------------------------------------------------
(* Claims about the character-class printer (SpecClass) *)

\* the tokens between the brackets
ClassBody(toks) == SubSeq(toks, 2, Len(toks) - 1)

IsHyphenToken(t) == t.txt = <<45>>

\* what a class escape denotes to a regex engine
Decode(txt) ==
    IF Len(txt) = 1 THEN txt[1]
    ELSE CASE txt = <<92, 110>> -> 10
           [] txt = <<92, 114>> -> 13
           [] txt = <<92, 116>> -> 9
           [] OTHER -> txt[2]

\* the escaped forms the contract lists
ContractEscape(c) ==
    CASE c \in {91, 93, 92, 45, 94} -> <<92, c>>
      [] c = 10 -> <<92, 110>>
      [] c = 13 -> <<92, 114>>
      [] c = 9 -> <<92, 116>>
      [] OTHER -> <<c>>

\* position in the sequence of all scalar values
ScalarIndex(c) == IF c < 55296 THEN c ELSE c - 2048

Follows(S, c) == \E d \in S : ScalarIndex(d) = ScalarIndex(c) + 1
Preceded(S, c) == \E d \in S : ScalarIndex(d) + 1 = ScalarIndex(c)

\* the maximal run of S that starts at c
RECURSIVE RunFrom(_, _)
RunFrom(S, c) ==
    IF Follows(S, c)
    THEN <<c>> \o RunFrom(S, CHOOSE d \in S : ScalarIndex(d) = ScalarIndex(c) + 1)
    ELSE <<c>>

RunText(run) ==
    IF Len(run) >= 3
    THEN <<escape_in_class(run[1]), <<45>>, escape_in_class(run[Len(run)])>>
    ELSE [i \in 1..Len(run) |-> escape_in_class(run[i])]

ContractClassBody(S) ==
    LET starts == BTreeSetIter({c \in S : ~Preceded(S, c)})
    IN Flatten([i \in 1..Len(starts) |-> RunText(RunFrom(S, starts[i]))])

\* C2: a printed class lists its members in ascending order, every maximal run
\* of consecutive scalar positions of length 3 or more as first-last and every
\* maximal run of length 1 or 2 as its individual characters.
C2_RunsPrinted ==
    (pc = "done" /\ expr.type = "CharacterClass") =>
        Texts(ClassBody(output)) = ContractClassBody(expr.char_set)

\* C3: a class of exactly one member prints as that bare character, without
\* brackets.
C3_SingleMemberBare ==
    (pc = "done" /\ expr.type = "CharacterClass"
       /\ Cardinality(expr.char_set) = 1) =>
        \E c \in expr.char_set :
            /\ Len(output) = 1
            /\ output[1].txt \in {<<c>>, escape_in_class(c), escape_regexp_symbols(c)}

\* C7: inside a printed class the members [ ] \ - ^ carry a backslash,
\* newline, carriage return and tab print as \n, \r, \t and every other
\* member prints unchanged, also as the first or last endpoint of a range.
C7_MembersEscaped ==
    (pc = "done" /\ expr.type = "CharacterClass") =>
        \A i \in 1..Len(ClassBody(output)) :
            LET t == ClassBody(output)[i]
            IN ~IsHyphenToken(t) =>
                  /\ Decode(t.txt) \in expr.char_set
                  /\ t.txt = ContractEscape(Decode(t.txt))

\* the class [\t\[-\]]: a tab, then a range whose endpoints are both escaped
C7_Witness ==
    /\ pc = "done"
    /\ expr.char_set = {9, 91, 92, 93}
    /\ Texts(output) = <<<<91>>, <<92, 116>>, <<92, 91>>, <<45>>, <<92, 93>>, <<93>>>>

\* the scalar values a printed class body matches
RECURSIVE Denoted(_)
Denoted(body) ==
    IF body = <<>> THEN {}
    ELSE IF Len(body) >= 3 /\ IsHyphenToken(body[2])
    THEN {c \in Chars : Decode(body[1].txt) <= c /\ c <= Decode(body[3].txt)}
         \cup Denoted(SubSeq(body, 4, Len(body)))
    ELSE {Decode(body[1].txt)} \cup Denoted(Tail(body))

\* C10: for a set of two or more members the printed class denotes exactly
\* the set: every member is printed or lies inside a printed range, and no
\* other scalar value is printed or covered by a range.
C10_ClassDenotesSet ==
    (pc = "done" /\ expr.type = "CharacterClass"
       /\ Cardinality(expr.char_set) >= 2) =>
        Denoted(ClassBody(output)) = expr.char_set

\* a range running over the surrogate gap next to a lone member
C10_Witness ==
    /\ pc = "done"
    /\ expr.char_set = {97, 55295, 57344, 57345}
    /\ Texts(output) = <<<<91>>, <<97>>, <<55295>>, <<45>>, <<57345>>, <<93>>>>

-----------------------------------------------------------------------------
(* One run of the command-line program (SpecCLI) *)

FileChars == {97, 10, 13}

RECURSIVE Strings(_)
Strings(n) ==
    IF n = 0 THEN {<<>>}
    ELSE Strings(n - 1)
         \cup {Append(t, c) : t \in {u \in Strings(n - 1) : Len(u) = n - 1}, c \in FileChars}

ReadOutcomes ==
    {ReadOk(content) : content \in Strings(MaxFileLen)}
    \cup {ReadErr("NotFound", "No such file or directory (os error 2)"),
          ReadErr("InvalidData", "stream did not contain valid UTF-8"),
          ReadErr("PermissionDenied", "Permission denied (os error 13)"),
          ReadErr("Other", "Is a directory (os error 21)")}

CommandLines ==
    {MakeCli(values, file_path, flags) :
        values \in {<<>>, <<<<97>>, <<97, 98>>>>},
        file_path \in {"none", "cases.txt"},
        flags \in [FlagNames -> BOOLEAN]}

InitCLI ==
    /\ pc = "start"
    /\ expr = Literal(<<>>) /\ output = <<>>
    /\ argv \in CommandLines
    /\ fs \in IF argv.input = <<>> /\ argv.file_path # "none"
              THEN ReadOutcomes ELSE {NotRead}
    /\ cli = NoCli /\ input = NoResult /\ builder = NoBuilder
    /\ stdout = <<>> /\ stderr = <<>>
    /\ parse_error = "none" /\ exit_status = "running"

\* CLI::from_args() builds the struct
FromArgs ==
    /\ pc = "start" /\ ArgsAccepted(argv)
    /\ cli' = argv
    /\ pc' = "parsed"
    /\ UNCHANGED <<expr, output, argv, fs, input, builder, stdout, stderr,
                   parse_error, exit_status>>

\* CLI::from_args() reports a usage error and ends the process
FromArgsRejects ==
    /\ pc = "start" /\ ~ArgsAccepted(argv)
    /\ parse_error' = UsageError(argv)
    /\ exit_status' = "failure"
    /\ pc' = "exited"
    /\ UNCHANGED <<expr, output, argv, fs, cli, input, builder, stdout, stderr>>

ObtainInput ==
    /\ pc = "parsed"
    /\ input' = obtain_input(cli, fs)
    /\ pc' = "obtained"
    /\ UNCHANGED <<expr, output, argv, fs, cli, builder, stdout, stderr,
                   parse_error, exit_status>>

HandleInputOk ==
    /\ pc = "obtained" /\ input.ok
    /\ builder' = handle_input(cli, input).builder
    /\ stdout' = stdout \o handle_input(cli, input).stdout
    /\ stderr' = stderr \o handle_input(cli, input).stderr
    /\ pc' = "handled"
    /\ UNCHANGED <<expr, output, argv, fs, cli, input, parse_error, exit_status>>

HandleInputErr ==
    /\ pc = "obtained" /\ ~input.ok
    /\ builder' = handle_input(cli, input).builder
    /\ stdout' = stdout \o handle_input(cli, input).stdout
    /\ stderr' = stderr \o handle_input(cli, input).stderr
    /\ pc' = "handled"
    /\ UNCHANGED <<expr, output, argv, fs, cli, input, parse_error, exit_status>>

\* main returns (): the process ends with status 0
MainReturns ==
    /\ pc = "handled"
    /\ exit_status' = "success"
    /\ pc' = "exited"
    /\ UNCHANGED <<expr, output, argv, fs, cli, input, builder, stdout, stderr,
                   parse_error>>

NextCLI ==
    \/ FromArgs
    \/ FromArgsRejects
    \/ ObtainInput
    \/ HandleInputOk
    \/ HandleInputErr
    \/ MainReturns

SpecCLI == InitCLI /\ [][NextCLI]_vars

-----------------------------------------------------------------------------
(* Claims about the command-line program (SpecCLI) *)

MissingInput(args) == args.input = <<>> /\ args.file_path = "none"

\* the run read the file named by --file and the read failed
FileReadFailed ==
    /\ cli.input = <<>> /\ cli.file_path # "none"
    /\ fs.kind \in {"NotFound", "InvalidData", "PermissionDenied", "Other"}

\* C4: the process ends with status 0 when a regex was produced, and with a
\* non-zero status after a diagnostic when the input is missing, the file is
\* not found, the file is not UTF-8 or permission is denied.
C4_ExitStatus ==
    pc = "exited" =>
        /\ stdout # <<>> => exit_status = "success"
        /\ MissingInput(argv) =>
              exit_status = "failure" /\ (parse_error # "none" \/ stderr # <<>>)
        /\ (FileReadFailed /\ fs.kind \in {"NotFound", "InvalidData", "PermissionDenied"}) =>
              exit_status = "failure" /\ stderr # <<>>

RECURSIVE EmptyLines(_)
EmptyLines(k) == IF k = 0 THEN <<>> ELSE <<10>> \o EmptyLines(k - 1)

\* C5: with --file each line is one test case and trailing blank lines are
\* ignored: the content followed by any number of empty lines gives the same
\* list of test cases.
C5_TrailingBlankLinesIgnored ==
    (pc \in {"obtained", "handled", "exited"}
       /\ cli.input = <<>> /\ cli.file_path # "none" /\ fs.kind = "Ok") =>
        /\ input.ok
        /\ \A k \in 1..MaxAppended :
              lines(fs.content \o EmptyLines(k)) = input.test_cases

Features ==
    {"Digit", "NonDigit", "Space", "NonSpace", "Word", "NonWord", "Repetition"}

FlagOf(c, feature) ==
    CASE feature = "Digit" -> c.is_digit_converted
      [] feature = "NonDigit" -> c.is_non_digit_converted
      [] feature = "Space" -> c.is_space_converted
      [] feature = "NonSpace" -> c.is_non_space_converted
      [] feature = "Word" -> c.is_word_converted
      [] feature = "NonWord" -> c.is_non_word_converted
      [] feature = "Repetition" -> c.is_repetition_converted

\* C9: on successful input the builder holds exactly what the flags select:
\* a conversion feature iff its flag is set, non-ASCII escaping iff -e,
\* surrogate conversion only with both -e and --with-surrogates, syntax
\* highlighting iff -c; and build() has been called exactly once.
C9_BuilderConfiguration ==
    (pc \in {"handled", "exited"} /\ parse_error = "none" /\ input.ok) =>
        /\ builder.created
        /\ builder.test_cases = input.test_cases
        /\ \A f \in Features :
              (\E i \in 1..Len(builder.conversion_features) :
                  builder.conversion_features[i] = f) <=> FlagOf(cli, f)
        /\ builder.is_non_ascii_char_escaped <=> cli.is_non_ascii_char_escaped
        /\ builder.is_astral_code_point_converted_to_surrogate =>
              (cli.is_non_ascii_char_escaped
               /\ cli.is_astral_code_point_converted_to_surrogate)
        /\ builder.is_output_colorized <=> cli.is_output_colorized
        /\ builder.build_calls = 1

\* grex -d -S -r -e --with-surrogates -c -f cases.txt, the file holding "a\n"
C9_Witness ==
    /\ pc = "exited"
    /\ fs = ReadOk(<<97, 10>>)
    /\ builder.test_cases = <<<<97>>>>
    /\ builder.conversion_features = <<"Digit", "NonSpace", "Repetition">>
    /\ builder.is_non_ascii_char_escaped
    /\ builder.is_astral_code_point_converted_to_surrogate
    /\ builder.is_output_colorized
    /\ builder.build_calls = 1
    /\ stdout = <<<<"regexp">>>>

=============================================================================
